---------------------------- MODULE Spec2Model ----------------------------
(***************************************************************************)
(* A model of depose (src/main.go): the manifest reader, the concurrent    *)
(* tree scanner with its per-file extraction goroutines, the usage table   *)
(* guarded by a mutex, and the pruner that rewrites package.json.          *)
(*                                                                         *)
(* Text is kept as text: file contents, lines, dependency names and paths  *)
(* are strings, and the string functions of the Go code (strings.Contains, *)
(* strings.Split, the two regular expressions, json.Unmarshal) are         *)
(* computed character by character.                                        *)
(***************************************************************************)
EXTENDS Integers, Sequences, FiniteSets, TLC

(***************************************************************************)
(* Strings                                                                 *)
(***************************************************************************)

\* The byte at position i of s (1-based), "" past either end.
Ch(s, i) == IF i >= 1 /\ i <= Len(s) THEN SubSeq(s, i, i) ELSE ""

\* s[i:] of Go, 1-based.
From(s, i) == SubSeq(s, i, Len(s))

\* Does sub occur in s starting at position i?
At(s, i, sub) == i >= 1 /\ i + Len(sub) - 1 <= Len(s) /\ SubSeq(s, i, i + Len(sub) - 1) = sub

\* The least element of a non-empty set of integers.
Min(S) == CHOOSE i \in S : \A j \in S : i <= j

\* The element of a one-element set. Only({F(x) : x \in {e}}) is F(e) with e
\* evaluated once, which is how the recursive definitions below hand a
\* computed argument on.
Only(S) == CHOOSE x \in S : TRUE

\* strings.Contains
Contains(s, sub) == \E i \in 1..(Len(s) + 1) : At(s, i, sub)

\* strings.HasPrefix
HasPrefix(s, prefix) == At(s, 1, prefix)

\* strings.TrimSuffix
TrimSuffix(s, suffix) ==
    IF Len(s) >= Len(suffix) /\ At(s, Len(s) - Len(suffix) + 1, suffix)
    THEN SubSeq(s, 1, Len(s) - Len(suffix))
    ELSE s

\* strings.Index, 0 when sub does not occur (Go returns -1).
IndexOf(s, sub) ==
    IF Contains(s, sub)
    THEN Min({i \in 1..(Len(s) + 1) : At(s, i, sub)})
    ELSE 0

\* strings.Split for a non-empty separator.
RECURSIVE Split(_, _)
Split(s, sep) ==
    LET i == IndexOf(s, sep)
    IN  IF i = 0 THEN <<s>>
        ELSE <<SubSeq(s, 1, i - 1)>>
             \o Only({Split(rest, sep) : rest \in {From(s, i + Len(sep))}})

\* \s of Go's regexp syntax: [\t\n\f\r ].
IsSpace(c) == c \in {" ", "\t", "\n", "\f", "\r"}

\* The first position >= i of s that holds no \s character, Len(s) + 1 when
\* only \s characters follow (and i itself when i is past the end).
RECURSIVE SkipSpace(_, _)
SkipSpace(s, i) ==
    IF i <= Len(s) /\ IsSpace(Ch(s, i)) THEN Only({SkipSpace(s, j) : j \in {i + 1}}) ELSE i


(***************************************************************************)
(* json.Unmarshal(byteValue, &pkg), src/main.go:82-83                      *)
(*                                                                         *)
(* A JSON document is decoded into the set of its entries                  *)
(* <<path, kind, text>>: an object at path p gives <<p, "obj", "">> and    *)
(* the entries of its members under p \o <<key>>, a string gives           *)
(* <<p, "str", text>>, a literal true/false/null gives <<p, "lit", text>>. *)
(* Objects, strings and the three literals are the JSON this model reads;  *)
(* anything else at a value position is a syntax error.                    *)
(***************************************************************************)

JsonFail == [ok |-> FALSE, flat |-> {}, str |-> "", next |-> 0]

\* The position of the first '"' at or after i, 0 when a control character
\* or the end of the text comes first (an unterminated or broken string).
StringEnd(s, i) ==
    LET stops == {j \in i..Len(s) : Ch(s, j) \in {"\"", "\n", "\r", "\t", "\\"}}
        e == Min(stops)
    IN  IF stops # {} /\ Ch(s, e) = "\"" THEN e ELSE 0

\* A string literal starting at i.
ParseString(s, i) ==
    IF Ch(s, i) # "\"" THEN JsonFail
    ELSE Only({IF e = 0 THEN JsonFail
               ELSE [ok |-> TRUE, flat |-> {}, str |-> SubSeq(s, i + 1, e - 1), next |-> e + 1]
               : e \in {StringEnd(s, i + 1)}})

\* The entries of flat moved under key k.
Under(k, flat) == {<<(<<k>> \o e[1]), e[2], e[3]>> : e \in flat}

\* acc with member k set to the value whose entries are flat: a repeated key
\* replaces the earlier member, as decoding into a Go map does.
PutMember(acc, k, flat) ==
    {e \in acc : e[1] = <<>> \/ Head(e[1]) # k} \cup Under(k, flat)

RECURSIVE ParseValue(_, _), ParseMembers(_, _, _)

\* A value starting at i (i is no white space).
ParseValue(s, i) ==
    IF Ch(s, i) = "\""
    THEN Only({IF r.ok THEN [r EXCEPT !.flat = {<<(<<>>), "str", r.str>>}] ELSE JsonFail
               : r \in {ParseString(s, i)}})
    ELSE IF Ch(s, i) = "{"
    THEN Only({IF Ch(s, j) = "}"
               THEN [ok |-> TRUE, flat |-> {<<(<<>>), "obj", "">>}, str |-> "", next |-> j + 1]
               ELSE ParseMembers(s, j, {<<(<<>>), "obj", "">>})
               : j \in {SkipSpace(s, i + 1)}})
    ELSE IF \E lit \in {"true", "false", "null"} : At(s, i, lit)
    THEN LET lit == CHOOSE l \in {"true", "false", "null"} : At(s, i, l)
         IN  [ok |-> TRUE, flat |-> {<<(<<>>), "lit", lit>>}, str |-> "", next |-> i + Len(lit)]
    ELSE JsonFail

\* The members of an object from position i (the first key) to its "}".
ParseMembers(s, i, acc) ==
    Only({
        Only({
            Only({
                IF ~k.ok \/ Ch(s, c) # ":" \/ ~v.ok THEN JsonFail
                ELSE Only({
                    IF Ch(s, d) = "}"
                    THEN [ok |-> TRUE, flat |-> acc2, str |-> "", next |-> d + 1]
                    ELSE IF Ch(s, d) = ","
                    THEN Only({ParseMembers(s, n, acc2) : n \in {SkipSpace(s, d + 1)}})
                    ELSE JsonFail
                    : d \in {SkipSpace(s, v.next)}, acc2 \in {PutMember(acc, k.str, v.flat)}})
                : v \in {IF Ch(s, c) = ":" THEN ParseValue(s, j) ELSE JsonFail}})
            : c \in {SkipSpace(s, k.next)}, j \in {SkipSpace(s, SkipSpace(s, k.next) + 1)}})
        : k \in {ParseString(s, i)}})

\* The whole document: one value, white space around it, nothing else.
ParseJSON(text) ==
    Only({IF v.ok /\ SkipSpace(text, v.next) = Len(text) + 1 THEN v ELSE JsonFail
          : v \in {Only({ParseValue(text, j) : j \in {SkipSpace(text, 1)}})}})

\* The keys of the string-valued members of the top-level object member
\* section, with their values: a map[string]string field of Package.
Section(flat, section) ==
    {<<e[1][2], e[3]>> : e \in {f \in flat : Len(f[1]) = 2 /\ f[1][1] = section /\ f[2] = "str"}}

\* Package after json.Unmarshal, whose error is dropped: of a text that is
\* no valid JSON, or no object, nothing is decoded and pkg stays empty.
\* The sections are looked up by the exact keys of the struct tags, which
\* is how the manifests of ManifestList spell them.
Unmarshal(text) ==
    Only({[Scripts         |-> Section(flat, "scripts"),
           Dependencies    |-> Section(flat, "dependencies"),
           DevDependencies |-> Section(flat, "devDependencies")]
          : flat \in {Only({IF r.ok /\ <<(<<>>), "obj", "">> \in r.flat THEN r.flat ELSE {}
                            : r \in {ParseJSON(text)}})}})

(***************************************************************************)
(* The Reference Extractor, src/main.go:150-196                            *)
(***************************************************************************)

\* handleRequireCase: the names passed to markModuleAsFound, in call order.
RECURSIVE RequireNames(_)
RequireNames(frags) ==
    IF frags = <<>> THEN <<>>
    ELSE (IF ~HasPrefix(Head(frags), ".")
          THEN <<TrimSuffix(Head(frags), "\");")>>
          ELSE <<>>) \o RequireNames(Tail(frags))

\* handleRequireCase without its strings.HasPrefix(v, ".") test.
handleRequireCaseAll(currLine) ==
    Only({[i \in 1..Len(frags) |-> TrimSuffix(frags[i], "\");")]
          : frags \in {Tail(Split(currLine, "require(\""))}})

handleRequireCase(currLine) == RequireNames(Tail(Split(currLine, "require(\"")))

IsQuote(c) == c \in {"\"", "'"}

\* The first position >= i holding a quote character, 0 when there is none.
NextQuote(s, i) ==
    LET quotes == {j \in i..Len(s) : IsQuote(Ch(s, j))}
    IN  IF quotes = {} THEN 0 ELSE Min(quotes)

\* One alternative of the regular expression, kw\s*["']([^"']+)["'], tried
\* at position i: whether it matches, the submatch and the match's end.
MatchAlt(s, i, kw) ==
    LET q == SkipSpace(s, i + Len(kw))
        e == NextQuote(s, q + 1)
    IN  IF At(s, i, kw) /\ IsQuote(Ch(s, q)) /\ e > q + 1
        THEN [ok |-> TRUE, name |-> SubSeq(s, q + 1, e - 1), end |-> e]
        ELSE [ok |-> FALSE, name |-> "", end |-> 0]

\* re.FindAllStringSubmatch(currLine, -1) followed by the loop over the
\* matches: leftmost match first, the from-alternative before the
\* import-alternative, the search resuming after each match.
RECURSIVE ImportNames(_, _)
ImportNames(s, i) ==
    LET starts == {j \in i..Len(s) : MatchAlt(s, j, "from").ok \/ MatchAlt(s, j, "import").ok}
        m == Min(starts)
        a == MatchAlt(s, m, "from")
        b == MatchAlt(s, m, "import")
    IN  IF starts = {} THEN <<>>
        ELSE IF a.ok THEN <<a.name>> \o Only({ImportNames(s, j) : j \in {a.end + 1}})
        ELSE <<b.name>> \o Only({ImportNames(s, j) : j \in {b.end + 1}})

handleImportCase(currLine) == ImportNames(currLine, 1)

\* scanLineAndExtractPkgs without its two strings.Contains tests.
scanLineUngated(currLine) == handleRequireCase(currLine) \o handleImportCase(currLine)

\* scanLineAndExtractPkgs: the markModuleAsFound calls one line causes.
scanLineAndExtractPkgs(currLine) ==
    (IF Contains(currLine, "require") THEN handleRequireCase(currLine) ELSE <<>>)
    \o (IF Contains(currLine, "import") THEN handleImportCase(currLine) ELSE <<>>)

\* The calls of the scanning loop of readFileAndExtractPackages over the
\* lines of one file.
RECURSIVE ExtractLines(_)
ExtractLines(lines) ==
    IF lines = <<>> THEN <<>>
    ELSE scanLineAndExtractPkgs(Head(lines)) \o ExtractLines(Tail(lines))

(***************************************************************************)
(* The Pruner's text functions, src/main.go:254-309                        *)
(***************************************************************************)

\* bufio.ScanLines over a whole text: the lines without their "\n", one
\* trailing "\r" dropped, a last line without "\n" included when not empty.
RECURSIVE ScanLines(_)
ScanLines(data) ==
    LET i == IndexOf(data, "\n")
    IN  IF data = "" THEN <<>>
        ELSE IF i = 0 THEN <<TrimSuffix(data, "\r")>>
        ELSE <<TrimSuffix(SubSeq(data, 1, i - 1), "\r")>>
             \o Only({ScanLines(rest) : rest \in {From(data, i + 1)}})

\* The loop of createNewPackageJsonFile: every line that contains none of
\* depsToRemove, written with a "\n" after it.
RECURSIVE FilterLines(_, _)
FilterLines(lines, depsToRemove) ==
    IF lines = <<>> THEN ""
    ELSE LET line == Head(lines)
             shouldWrite == ~\E dep \in depsToRemove : Contains(line, dep)
         IN  (IF shouldWrite THEN line \o "\n" ELSE "") \o FilterLines(Tail(lines), depsToRemove)

\* re.ReplaceAllString(json, "}") for the expression ,\s*} : every leftmost
\* non-overlapping match is replaced by "}".
RECURSIVE ReplaceTrailingCommas(_)
ReplaceTrailingCommas(s) ==
    LET i == IndexOf(s, ",")
        j == SkipSpace(s, i + 1)
    IN  IF i = 0 THEN s
        ELSE IF Ch(s, j) = "}"
        THEN SubSeq(s, 1, i - 1) \o "}"
             \o Only({ReplaceTrailingCommas(rest) : rest \in {From(s, j + 1)}})
        ELSE SubSeq(s, 1, i)
             \o Only({ReplaceTrailingCommas(rest) : rest \in {From(s, i + 1)}})


(***************************************************************************)
(* The inputs of a run: the manifest on disk and the project tree          *)
(***************************************************************************)

\* The lines of a text file joined into its content, "\n" after each.
RECURSIVE Text(_)
Text(lines) == IF lines = <<>> THEN "" ELSE Head(lines) \o "\n" \o Text(Tail(lines))

\* The manifests a run is started on.
ManifestList ==
    << \* the scenario of the README: one dependency kept by a script
       Text(<< "{",
               "  \"name\": \"app\",",
               "  \"scripts\": {",
               "    \"build\": \"chalk-cli build\"",
               "  },",
               "  \"dependencies\": {",
               "    \"chalk\": \"^5\",",
               "    \"lodash\": \"^4\"",
               "  },",
               "  \"devDependencies\": {",
               "    \"jest\": \"^29\"",
               "  }",
               "}" >>),
       \* one dependency's name is part of another's
       Text(<< "{",
               "  \"private\": true,",
               "  \"dependencies\": {",
               "    \"react\": \"^18\",",
               "    \"react-router\": \"^6\"",
               "  }",
               "}" >>),
       \* no valid JSON: the closing brace of the document is missing
       Text(<< "{",
               "  \"dependencies\": {",
               "    \"lodash\": \"^4\"",
               "  }" >>),
       \* a script names one dependency, a file of the tree another
       Text(<< "{",
               "  \"scripts\": {",
               "    \"test\": \"jest --ci\",",
               "    \"lint\": \"eslint .\"",
               "  },",
               "  \"devDependencies\": {",
               "    \"jest\": \"^29\",",
               "    \"lodash\": \"^4\",",
               "    \"left-pad\": \"^1\"",
               "  }",
               "}" >>) >>

NumManifests == 3

Manifests == {ManifestList[i] : i \in 1..NumManifests}

\* A directory and a file of the project tree, by path from the root.
Dir(path) == path :> [isDir |-> TRUE, lines |-> <<>>]
File(path, lines) == path :> [isDir |-> FALSE, lines |-> lines]

\* The project trees a run is started in; <<>> is the root, ".".
TreeList ==
    << Dir(<<>>)
       @@ Dir(<<".git">>)
       @@ File(<<".git", "config">>, << "import \"chalk\"" >>)
       @@ File(<<"index.js">>, << "const _ = require(\"lodash\");",
                                  "import Router from 'react-router'" >>)
       @@ Dir(<<"node_modules">>)
       @@ File(<<"node_modules", "jest.js">>, << "module.exports = require(\"jest\");" >>)
       @@ File(<<"package.json">>, <<>>)
       @@ Dir(<<"src">>)
       @@ File(<<"src", "app.js">>, << "import _ from \"lodash\"" >>)
       @@ Dir(<<"src", "node_modules">>)
       @@ File(<<"src", "node_modules", "dep.js">>, << "const j = require(\"jest\");" >>),
       Dir(<<>>)
       @@ File(<<"README.md">>, << "import 'lodash'" >>)
       @@ File(<<"index.js">>, << "import Foo from 'bar'",
                                  "const x = require(\"./localfile\");" >>)
       @@ File(<<"package.json">>, <<>>)
       @@ File(<<"util.js">>, << "export default 1" >>),
       Dir(<<>>)
       @@ File(<<"a.js">>, << "import 'left-pad'; import \"lodash\"" >>)
       @@ Dir(<<"lib">>)
       @@ File(<<"lib", "b.js">>, << "const l = require(\"lodash\");" >>)
       @@ File(<<"lib", "package.json">>, << "import 'jest'" >>)
       @@ File(<<"package.json">>, <<>>) >>

NumTrees == 2

Trees == {TreeList[i] : i \in 1..NumTrees}

(***************************************************************************)
(* The state of a run                                                      *)
(***************************************************************************)

VARIABLES
    manifest,      \* the content of package.json when the run starts
    tree,          \* the project tree filepath.Walk walks
    disk,          \* package.json, newPackage.json and oldpackage.json
    mp,            \* d.mp, the usage table
    mu,            \* d.mu: whether it is locked, and by which goroutine
    wg,            \* the counter of the WaitGroup wg
    pc,            \* where main is
    walkStack,     \* the paths filepath.Walk has still to visit, next first
    tasks,         \* the goroutines started by scanDir, by path
    depsToRemove,  \* the result of createDepsToRemoveList
    run,           \* "running", or how the process ended
    calls,         \* history: the names markModuleAsFound was called with
    failed         \* history: the I/O steps that failed

vars == <<manifest, tree, disk, mp, mu, wg, pc, walkStack, tasks, depsToRemove,
          run, calls, failed>>

Free == [locked |-> FALSE, by |-> <<>>]
LockedBy(t) == [locked |-> TRUE, by |-> t]

NoFile == [exists |-> FALSE, data |-> ""]
FileOf(data) == [exists |-> TRUE, data |-> data]

InitDisk(text) ==
    [name \in {"package.json", "newPackage.json", "oldpackage.json"} |->
        IF name = "package.json" THEN FileOf(text) ELSE NoFile]

Init ==
    /\ manifest \in Manifests
    /\ tree \in Trees
    /\ disk = InitDisk(manifest)
    /\ mp = <<>>
    /\ mu = Free
    /\ wg = 0
    /\ pc = "readPackages"
    /\ walkStack = <<>>
    /\ tasks = <<>>
    /\ depsToRemove = {}
    /\ run = "running"
    /\ calls = {}
    /\ failed = {}

\* log.Fatal: the diagnostic, then os.Exit(1), which ends every goroutine.
Fatal(step) ==
    /\ run' = "fatal"
    /\ failed' = failed \cup {step}

(***************************************************************************)
(* The Manifest Reader, src/main.go:71-101                                 *)
(***************************************************************************)

\* readPackages without its loop over pkg.Scripts (src/main.go:94-100).
readPackagesNoScripts(text) ==
    Only({[dependency \in {e[1] : e \in pkg.Dependencies \cup pkg.DevDependencies} |-> FALSE]
          : pkg \in {Unmarshal(text)}})

\* d.mp at the end of readPackages for a manifest of the given content: a
\* key for every dependency and devDependency, true for the keys that some
\* script command contains.
readPackagesTable(text) ==
    Only({LET names == {e[1] : e \in pkg.Dependencies \cup pkg.DevDependencies}
              scripts == {e[2] : e \in pkg.Scripts}
          IN  [dependency \in names |-> \E script \in scripts : Contains(script, dependency)]
          : pkg \in {Unmarshal(text)}})

readPackages ==
    /\ run = "running"
    /\ pc = "readPackages"
    /\ \/ /\ Fatal("readPackages: os.Open")
          /\ UNCHANGED <<mp, pc, walkStack>>
       \/ /\ disk["package.json"].exists
          /\ mp' = readPackagesTable(disk["package.json"].data)
          /\ pc' = "walk"
          /\ walkStack' = << <<>> >>
          /\ UNCHANGED <<run, failed>>
    /\ UNCHANGED <<manifest, tree, disk, mu, wg, tasks, depsToRemove, calls>>

(***************************************************************************)
(* The Tree Scanner, src/main.go:109-122 and the walk of src/main.go:317   *)
(***************************************************************************)

filesToExclude ==
    {"node_modules", ".gitignore", ".git", ".env", "package.json",
     "package-lock.json", "README.md", "main.go", "depose"}

\* filepath.Join of the components of a path below the root ".", which is
\* the path string filepath.Walk(".", ...) hands to scanDir.
RECURSIVE JoinPath(_)
JoinPath(p) ==
    IF p = <<>> THEN "."
    ELSE IF Len(p) = 1 THEN p[1]
    ELSE p[1] \o "/" \o JoinPath(Tail(p))

\* The byte order of the characters of file names.
Alphabet == "-./0123456789ABCDEFGHIJKLMNOPQRSTUVWXYZ_abcdefghijklmnopqrstuvwxyz"
Ord(c) == IndexOf(Alphabet, c)

\* a < b for strings, as sort.Strings orders the names of a directory.
StrLess(a, b) ==
    LET n == IF Len(a) < Len(b) THEN Len(a) ELSE Len(b)
        diff == {i \in 1..n : Ch(a, i) # Ch(b, i)}
    IN  IF diff = {} THEN Len(a) < Len(b)
        ELSE Ord(Ch(a, Min(diff))) < Ord(Ch(b, Min(diff)))

\* The names in a set, sorted.
RECURSIVE SortNames(_)
SortNames(S) ==
    IF S = {} THEN <<>>
    ELSE LET first == CHOOSE a \in S : \A b \in S \ {a} : StrLess(a, b)
         IN  <<first>> \o Only({SortNames(rest) : rest \in {S \ {first}}})

\* readDirNames: the sorted names of the entries of directory p.
readDirNames(p) ==
    SortNames({q[Len(q)] : q \in {r \in DOMAIN tree : Len(r) = Len(p) + 1
                                                      /\ SubSeq(r, 1, Len(p)) = p}})

\* The paths of the entries of directory p, in the order they are walked.
Entries(p) == LET names == readDirNames(p) IN [i \in 1..Len(names) |-> p \o <<names[i]>>]

\* scanDir that answers filepath.SkipDir for every path in filesToExclude,
\* without looking at info.IsDir().
scanDirSkipDirAlways(path, isDir) ==
    IF path \in filesToExclude THEN "SkipDir"
    ELSE IF ~isDir THEN "dispatch" ELSE "descend"

\* What scanDir does with a path: "SkipDir" and "skip" are its two returns
\* for a path in filesToExclude, "dispatch" is wg.Add(1) and the go
\* statement, "descend" is the return of nil for a directory.
scanDir(path, isDir) ==
    IF path \in filesToExclude
    THEN IF isDir THEN "SkipDir" ELSE "skip"
    ELSE IF ~isDir THEN "dispatch" ELSE "descend"

\* scanDir without its wg.Add(1).
wgAddForgotten(n) == n

\* wg.Add(1)
wgAdd(n) == n + 1

\* q is an entry of the directory that holds p.
Sibling(p, q) ==
    /\ p # <<>>
    /\ Len(q) = Len(p)
    /\ SubSeq(q, 1, Len(q) - 1) = SubSeq(p, 1, Len(p) - 1)

\* One visit of filepath.Walk: the next path is handed to scanDir. An entry
\* whose Lstat fails is handed over with a nil FileInfo, on which scanDir
\* calls IsDir: the run ends in a nil-pointer panic. On filepath.SkipDir
\* Walk leaves out the directory it was called on, or, called on a file, the
\* entries of the containing directory that are still to be visited.
walkVisit ==
    /\ run = "running"
    /\ pc = "walk"
    /\ walkStack # <<>>
    /\ LET p == Head(walkStack)
           rest == Tail(walkStack)
           does == scanDir(JoinPath(p), tree[p].isDir)
       IN  \/ /\ run' = "panic"
              /\ failed' = failed \cup {"scanDir: os.Lstat"}
              /\ UNCHANGED <<walkStack, wg, tasks>>
           \/ /\ does = "skip"
              /\ walkStack' = rest
              /\ UNCHANGED <<wg, tasks, run, failed>>
           \/ /\ does = "SkipDir"
              /\ walkStack' = IF tree[p].isDir THEN rest
                              ELSE SelectSeq(rest, LAMBDA q : ~Sibling(p, q))
              /\ UNCHANGED <<wg, tasks, run, failed>>
           \/ /\ does = "dispatch"
              /\ wg' = wgAdd(wg)
              /\ tasks' = (p :> [pc |-> "open", pending |-> <<>>, made |-> <<>>]) @@ tasks
              /\ walkStack' = rest
              /\ UNCHANGED <<run, failed>>
           \/ /\ does = "descend"
              /\ walkStack' = Entries(p) \o rest
              /\ UNCHANGED <<wg, tasks, run, failed>>
    /\ UNCHANGED <<manifest, tree, disk, mp, mu, pc, depsToRemove, calls>>

\* filepath.Walk returns; main goes on to wg.Wait.
walkReturn ==
    /\ run = "running"
    /\ pc = "walk"
    /\ walkStack = <<>>
    /\ pc' = "wg.Wait"
    /\ UNCHANGED <<manifest, tree, disk, mp, mu, wg, walkStack, tasks, depsToRemove,
                   run, calls, failed>>

\* main without its wg.Wait().
wgWaitSkipped(n) == TRUE

\* wg.Wait() returns when the counter is zero.
wgWaitReturns(n) == n = 0

wgWait ==
    /\ run = "running"
    /\ pc = "wg.Wait"
    /\ wgWaitReturns(wg)
    /\ pc' = "createDepsToRemoveList"
    /\ UNCHANGED <<manifest, tree, disk, mp, mu, wg, walkStack, tasks, depsToRemove,
                   run, calls, failed>>

(***************************************************************************)
(* The extraction goroutines, src/main.go:127-145 and 201-209              *)
(***************************************************************************)

\* Skip-and-continue: the goroutine logs the error and returns, and its
\* deferred wg.Done() runs.
openFailedSkip(t) ==
    /\ failed' = failed \cup {"readFileAndExtractPackages: os.Open"}
    /\ tasks' = [tasks EXCEPT ![t].pc = "done"]
    /\ wg' = wg - 1
    /\ UNCHANGED run

\* What the goroutine of file t does when os.Open fails: log.Fatal.
openFailed(t) ==
    /\ Fatal("readFileAndExtractPackages: os.Open")
    /\ UNCHANGED <<tasks, wg>>

\* The goroutine opens its file; on success the scanning loop starts, whose
\* calls of markModuleAsFound are the steps that follow.
taskOpen(t) ==
    /\ run = "running"
    /\ t \in DOMAIN tasks
    /\ tasks[t].pc = "open"
    /\ \/ openFailed(t)
       \/ /\ tasks' = [tasks EXCEPT ![t] = [pc |-> "scan",
                                               pending |-> ExtractLines(tree[t].lines),
                                               made |-> <<>>]]
          /\ UNCHANGED <<run, failed, wg>>
    /\ UNCHANGED <<manifest, tree, disk, mp, mu, pc, walkStack, depsToRemove, calls>>

\* A Lock that does not wait.
lockAnyway(m) == TRUE

\* d.mu.Lock() returns only when the mutex is not locked.
lockFree(m) == ~m.locked

\* markModuleAsFound is called with the next extracted name: d.mu.Lock().
taskLock(t) ==
    /\ run = "running"
    /\ t \in DOMAIN tasks
    /\ tasks[t].pc = "scan"
    /\ tasks[t].pending # <<>>
    /\ lockFree(mu)
    /\ mu' = LockedBy(t)
    /\ tasks' = [tasks EXCEPT ![t].pc = "locked",
                               ![t].made = @ \o <<Head(tasks[t].pending)>>]
    /\ calls' = calls \cup {Head(tasks[t].pending)}
    /\ UNCHANGED <<manifest, tree, disk, mp, wg, pc, walkStack, depsToRemove, run, failed>>

\* markModuleAsFound without its lookup: d.mp[moduleName] = true.
markModuleAsFoundInsert(table, moduleName) ==
    [k \in DOMAIN table \cup {moduleName} |-> k = moduleName \/ table[k]]

\* The body of markModuleAsFound: the entry is set if the key is present.
markModuleAsFound(table, moduleName) ==
    IF moduleName \in DOMAIN table THEN [table EXCEPT ![moduleName] = TRUE] ELSE table

taskMark(t) ==
    /\ run = "running"
    /\ t \in DOMAIN tasks
    /\ tasks[t].pc = "locked"
    /\ mp' = markModuleAsFound(mp, Head(tasks[t].pending))
    /\ tasks' = [tasks EXCEPT ![t].pc = "unlock"]
    /\ UNCHANGED <<manifest, tree, disk, mu, wg, pc, walkStack, depsToRemove, run,
                   calls, failed>>

\* d.mu.Unlock(), and markModuleAsFound returns to the scanning loop.
taskUnlock(t) ==
    /\ run = "running"
    /\ t \in DOMAIN tasks
    /\ tasks[t].pc = "unlock"
    /\ mu' = Free
    /\ tasks' = [tasks EXCEPT ![t].pc = "scan", ![t].pending = Tail(@)]
    /\ UNCHANGED <<manifest, tree, disk, mp, wg, pc, walkStack, depsToRemove, run,
                   calls, failed>>

\* A goroutine that returns without wg.Done().
wgDoneForgotten(n) == n

\* wg.Done()
wgDone(n) == n - 1

\* The scanning loop is over: the deferred readFile.Close() and wg.Done().
taskDone(t) ==
    /\ run = "running"
    /\ t \in DOMAIN tasks
    /\ tasks[t].pc = "scan"
    /\ tasks[t].pending = <<>>
    /\ wg' = wgDone(wg)
    /\ tasks' = [tasks EXCEPT ![t].pc = "done"]
    /\ UNCHANGED <<manifest, tree, disk, mp, mu, pc, walkStack, depsToRemove, run,
                   calls, failed>>

(***************************************************************************)
(* The Pruner, src/main.go:212-309, and the end of main                    *)
(***************************************************************************)

\* createDepsToRemoveList with the append moved out of the if, beside the
\* Printf that is already there.
createDepsToRemoveListAll(table) == DOMAIN table

\* The keys of the table with a false value. The order of the slice is the
\* order of a map iteration, which the filter below does not depend on.
createDepsToRemoveList(table) == {k \in DOMAIN table : ~table[k]}

createList ==
    /\ run = "running"
    /\ pc = "createDepsToRemoveList"
    /\ depsToRemove' = createDepsToRemoveList(mp)
    /\ pc' = "deleteDepsFromPackageJSON"
    /\ UNCHANGED <<manifest, tree, disk, mp, mu, wg, walkStack, tasks, run, calls, failed>>

\* deleteDepsFromPackageJSON opens package.json.
prunerOpen ==
    /\ run = "running"
    /\ pc = "deleteDepsFromPackageJSON"
    /\ \/ /\ Fatal("deleteDepsFromPackageJSON: os.Open")
          /\ UNCHANGED pc
       \/ /\ disk["package.json"].exists
          /\ pc' = "createNewPackageJsonFile"
          /\ UNCHANGED <<run, failed>>
    /\ UNCHANGED <<manifest, tree, disk, mp, mu, wg, walkStack, tasks, depsToRemove, calls>>

\* The content createNewPackageJsonFile writes for a manifest of the given
\* content.
filteredCopy(data, deps) ==
    Only({FilterLines(lines, deps) : lines \in {ScanLines(data)}})

\* createNewPackageJsonFile: os.Create, fatal when it fails, then the
\* filtering loop and writer.Flush, whose errors are dropped: when the
\* write fails the file stays as os.Create left it, empty, and the run
\* goes on.
createNewPackageJsonFile ==
    /\ run = "running"
    /\ pc = "createNewPackageJsonFile"
    /\ \/ /\ Fatal("createNewPackageJsonFile: os.Create")
          /\ UNCHANGED <<disk, pc>>
       \/ /\ disk' = [disk EXCEPT !["newPackage.json"] =
                         FileOf(filteredCopy(disk["package.json"].data, depsToRemove))]
          /\ pc' = "removeTrailingCommas"
          /\ UNCHANGED <<run, failed>>
       \/ /\ disk' = [disk EXCEPT !["newPackage.json"] = FileOf("")]
          /\ pc' = "removeTrailingCommas"
          /\ failed' = failed \cup {"createNewPackageJsonFile: writer.Flush"}
          /\ UNCHANGED run
    /\ UNCHANGED <<manifest, tree, mp, mu, wg, walkStack, tasks, depsToRemove, calls>>

\* removeTrailingCommas: os.ReadFile, the replacement, os.WriteFile; either
\* failure is fatal. A failed os.WriteFile has truncated the file or has
\* left it alone.
removeTrailingCommas ==
    /\ run = "running"
    /\ pc = "removeTrailingCommas"
    /\ \/ /\ Fatal("removeTrailingCommas: os.ReadFile")
          /\ UNCHANGED <<disk, pc>>
       \/ /\ Fatal("removeTrailingCommas: os.WriteFile")
          /\ \E truncated \in BOOLEAN :
                disk' = IF truncated THEN [disk EXCEPT !["newPackage.json"] = FileOf("")]
                        ELSE disk
          /\ UNCHANGED pc
       \/ /\ disk["newPackage.json"].exists
          /\ disk' = [disk EXCEPT !["newPackage.json"] =
                         FileOf(ReplaceTrailingCommas(disk["newPackage.json"].data))]
          /\ pc' = "rename backup"
          /\ UNCHANGED <<run, failed>>
    /\ UNCHANGED <<manifest, tree, mp, mu, wg, walkStack, tasks, depsToRemove, calls>>

\* os.Rename(from, to) that succeeds: to holds what from held, from is gone.
Renamed(d, from, to) == [d EXCEPT ![to] = d[from], ![from] = NoFile]

\* os.Rename("package.json", "oldpackage.json"); its error is dropped.
renameBackup ==
    /\ run = "running"
    /\ pc = "rename backup"
    /\ \/ /\ disk["package.json"].exists
          /\ disk' = Renamed(disk, "package.json", "oldpackage.json")
          /\ UNCHANGED failed
       \/ /\ failed' = failed \cup {"os.Rename package.json oldpackage.json"}
          /\ UNCHANGED disk
    /\ pc' = "rename new"
    /\ UNCHANGED <<manifest, tree, mp, mu, wg, walkStack, tasks, depsToRemove, run, calls>>

\* os.Rename("newPackage.json", "package.json"); its error is dropped.
renameNew ==
    /\ run = "running"
    /\ pc = "rename new"
    /\ \/ /\ disk["newPackage.json"].exists
          /\ disk' = Renamed(disk, "newPackage.json", "package.json")
          /\ UNCHANGED failed
       \/ /\ failed' = failed \cup {"os.Rename newPackage.json package.json"}
          /\ UNCHANGED disk
    /\ pc' = "Program Complete"
    /\ UNCHANGED <<manifest, tree, mp, mu, wg, walkStack, tasks, depsToRemove, run, calls>>

\* main prints "Program Complete...." and returns.
programComplete ==
    /\ run = "running"
    /\ pc = "Program Complete"
    /\ run' = "complete"
    /\ UNCHANGED <<manifest, tree, disk, mp, mu, wg, pc, walkStack, tasks, depsToRemove,
                   calls, failed>>

(***************************************************************************)
(* The run                                                                 *)
(***************************************************************************)

Next ==
    \/ readPackages
    \/ walkVisit
    \/ walkReturn
    \/ wgWait
    \/ \E t \in DOMAIN tasks : taskOpen(t)
    \/ \E t \in DOMAIN tasks : taskLock(t)
    \/ \E t \in DOMAIN tasks : taskMark(t)
    \/ \E t \in DOMAIN tasks : taskUnlock(t)
    \/ \E t \in DOMAIN tasks : taskDone(t)
    \/ createList
    \/ prunerOpen
    \/ createNewPackageJsonFile
    \/ removeTrailingCommas
    \/ renameBackup
    \/ renameNew
    \/ programComplete

Spec == Init /\ [][Next]_vars

\* The steps of the main goroutine.
MainStep ==
    \/ readPackages
    \/ walkVisit
    \/ walkReturn
    \/ wgWait
    \/ createList
    \/ prunerOpen
    \/ createNewPackageJsonFile
    \/ removeTrailingCommas
    \/ renameBackup
    \/ renameNew
    \/ programComplete

\* The steps of the goroutine of file t.
TaskStep(t) == taskOpen(t) \/ taskLock(t) \/ taskMark(t) \/ taskUnlock(t) \/ taskDone(t)

\* The files of the trees: the goroutines there can be.
TaskIds == UNION {{p \in DOMAIN TreeList[i] : ~TreeList[i][p].isDir} : i \in 1..Len(TreeList)}

\* The Go scheduler runs every goroutine that can run: main and each
\* goroutine of a file take their next step when it stays possible.
FairSpec ==
    /\ Init
    /\ [][Next]_vars
    /\ WF_vars(MainStep)
    /\ \A t \in TaskIds : WF_vars(TaskStep(t))

(***************************************************************************)
(* The Pruner on manifests that need no pruning, src/main.go:323-329       *)
(***************************************************************************)

\* Valid manifests in which every declared dependency is named by a script,
\* as npm writes them: two-space indentation, a final newline.
PrunedList ==
    << Text(<<"{",
              "  \"name\": \"app\",",
              "  \"scripts\": {",
              "    \"depose\": \"depose\"",
              "  },",
              "  \"dependencies\": {",
              "    \"depose\": \"^1\"",
              "  }",
              "}">>),
       Text(<<"{",
              "  \"name\": \"app\",",
              "  \"scripts\": {",
              "    \"fmt\": \"prettier --write {src,}\"",
              "  },",
              "  \"devDependencies\": {",
              "    \"prettier\": \"^3\"",
              "  }",
              "}">>),
       Text(<<"{",
              "  \"name\": \"app\",",
              "  \"private\": true",
              "}">>),
       Text(<<"{",
              "  \"scripts\": {",
              "    \"test\": \"jest\"",
              "  },",
              "  \"devDependencies\": {",
              "    \"jest\": \"^29\"",
              "  }",
              "}">>),
       Text(<<"{",
              "  \"name\": \"app\",",
              "  \"scripts\": {},",
              "  \"dependencies\": {}",
              "}">>) >>

NumPruned == 4
PrunedManifests == {PrunedList[i] : i \in 1..NumPruned}

\* A project directory that holds package.json and nothing to scan.
BareTree == Dir(<<>>) @@ File(<<"package.json">>, <<>>)

\* main at the return of wg.Wait in such a directory: readPackages has
\* filled the table, the walk has started no goroutine.
InitPruner ==
    /\ manifest \in PrunedManifests
    /\ tree = BareTree
    /\ disk = InitDisk(manifest)
    /\ mp = readPackagesTable(manifest)
    /\ mu = Free
    /\ wg = 0
    /\ pc = "createDepsToRemoveList"
    /\ walkStack = <<>>
    /\ tasks = <<>>
    /\ depsToRemove = {}
    /\ run = "running"
    /\ calls = {}
    /\ failed = {}

NextPruner ==
    \/ createList
    \/ prunerOpen
    \/ createNewPackageJsonFile
    \/ removeTrailingCommas
    \/ renameBackup
    \/ renameNew
    \/ programComplete

SpecPruner == InitPruner /\ [][NextPruner]_vars

(***************************************************************************)
(* One goroutine on the lines of one file, src/main.go:127-209             *)
(***************************************************************************)

ExtractManifest ==
    Text(<<"{",
           "  \"dependencies\": {",
           "    \"bar\": \"^1\",",
           "    \"express\": \"^4\",",
           "    \"lodash\": \"^4\"",
           "  }",
           "}">>)

\* The lines a scanned file is made of.
LineList ==
    << "import Foo from 'bar'",
       "const x = require(\"./localfile\");",
       "const _ = require(\"lodash\");",
       "export { y } from 'lodash'",
       "const a = require(\"express\"), b = require(\"./b\");",
       "import \"lodash\"; import x from \"bar\"",
       "// requires an import of express" >>

NumLines == 6
MaxLines == 2

RECURSIVE LinesUpTo(_)
LinesUpTo(n) ==
    IF n = 0 THEN {<<>>}
    ELSE LET shorter == LinesUpTo(n - 1)
         IN  shorter \cup {ls \o <<LineList[i]>> : ls \in shorter, i \in 1..NumLines}

\* The project trees of one source file, index.js, beside package.json.
ExtractTrees ==
    {Dir(<<>>) @@ File(<<"index.js">>, lines) @@ File(<<"package.json">>, <<>>)
     : lines \in LinesUpTo(MaxLines) \ {<<>>}}

\* main in wg.Wait after the walk of such a tree: readPackages has filled
\* the table, scanDir has started the goroutine of index.js.
InitExtract ==
    /\ manifest = ExtractManifest
    /\ tree \in ExtractTrees
    /\ disk = InitDisk(manifest)
    /\ mp = readPackagesTable(manifest)
    /\ mu = Free
    /\ wg = 1
    /\ pc = "wg.Wait"
    /\ walkStack = <<>>
    /\ tasks = (<<"index.js">> :> [pc |-> "open", pending |-> <<>>, made |-> <<>>])
    /\ depsToRemove = {}
    /\ run = "running"
    /\ calls = {}
    /\ failed = {}

NextExtract ==
    \/ \E t \in DOMAIN tasks : taskOpen(t)
    \/ \E t \in DOMAIN tasks : taskLock(t)
    \/ \E t \in DOMAIN tasks : taskMark(t)
    \/ \E t \in DOMAIN tasks : taskUnlock(t)
    \/ \E t \in DOMAIN tasks : taskDone(t)
    \/ wgWait

SpecExtract == InitExtract /\ [][NextExtract]_vars

(***************************************************************************)
(* The vocabulary of the properties                                        *)
(***************************************************************************)

\* The manifest the run started on, decoded.
Pkg == Unmarshal(manifest)

\* The declared dependencies: the keys of dependencies and devDependencies.
Declared == {e[1] : e \in Pkg.Dependencies \cup Pkg.DevDependencies}

\* The declared dependencies that some script command contains.
ScriptNamed == {d \in Declared : \E e \in Pkg.Scripts : Contains(e[2], d)}

\* main is past wg.Wait.
PastBarrier ==
    pc \in {"createDepsToRemoveList", "deleteDepsFromPackageJSON", "createNewPackageJsonFile",
            "removeTrailingCommas", "rename backup", "rename new", "Program Complete"}

\* createDepsToRemoveList has returned.
ListComputed == PastBarrier /\ pc # "createDepsToRemoveList"

\* The goroutines inside markModuleAsFound, between Lock and Unlock.
InSection == {t \in DOMAIN tasks : tasks[t].pc \in {"locked", "unlock"}}

\* The names the goroutine of file t passes to markModuleAsFound.
NamesOf(t) == {ExtractLines(tree[t].lines)[i] : i \in 1..Len(ExtractLines(tree[t].lines))}

\* The I/O steps of the Pruner.
PrunerSteps ==
    {"deleteDepsFromPackageJSON: os.Open", "createNewPackageJsonFile: os.Create",
     "createNewPackageJsonFile: writer.Flush", "removeTrailingCommas: os.ReadFile",
     "removeTrailingCommas: os.WriteFile", "os.Rename package.json oldpackage.json",
     "os.Rename newPackage.json package.json"}

\* The manifest files are as they were when the run started.
DiskUntouched == disk = InitDisk(manifest)

\* The repaired, filtered content the Pruner produces for this run.
Repaired == ReplaceTrailingCommas(filteredCopy(manifest, depsToRemove))

(***************************************************************************)
(* Properties                                                              *)
(***************************************************************************)

\* C1: a declared dependency that some script command contains as a
\* substring is marked used from readPackages on and is never in the
\* removal set, whatever the files hold and however the goroutines
\* interleave.
C1_ScriptDepsNeverRemoved ==
    \A d \in ScriptNamed :
        /\ d \notin depsToRemove
        /\ pc # "readPackages" => d \in DOMAIN mp /\ mp[d]

\* The removal set has been computed, it is not empty, and a dependency
\* named by a script that no file refers to is not in it.
C1_Witness ==
    /\ ListComputed
    /\ depsToRemove # {}
    /\ \E d \in ScriptNamed : d \notin calls

\* C2: once computed, the removal set is exactly the set of keys of the
\* usage table whose flag is false, and it holds every declared dependency
\* that no script command contains and that markModuleAsFound was never
\* called with.
C2_RemovalSetIsTheUnused ==
    ListComputed =>
        /\ depsToRemove = {k \in DOMAIN mp : ~mp[k]}
        /\ \A d \in Declared \ ScriptNamed : d \notin calls => d \in depsToRemove

\* The removal set has been computed; one declared dependency was never
\* referred to and is in it, another was marked by a goroutine and is not.
C2_Witness ==
    /\ ListComputed
    /\ \E d \in Declared \ ScriptNamed : d \notin calls /\ d \in depsToRemove
    /\ \E d \in Declared \ ScriptNamed : d \in calls /\ d \notin depsToRemove

\* C3: at most one goroutine is between Lock and Unlock of d.mu, the mutex
\* is held exactly while a goroutine is there and is free again after the
\* call on the present and on the absent path, and the entry of every
\* declared name a finished goroutine has marked is true.
C3_MarkIsAtomic ==
    /\ Cardinality(InSection) <= 1
    /\ mu.locked <=> InSection # {}
    /\ mu.locked => InSection = {mu.by}
    /\ \A t \in DOMAIN tasks :
          tasks[t].pc = "done" => \A n \in NamesOf(t) \cap DOMAIN mp : mp[n]

\* Two goroutines that both marked the same declared name have finished,
\* and a name that is no key of the table has been passed as well.
C3_Witness ==
    /\ \E t1, t2 \in DOMAIN tasks :
          /\ t1 # t2
          /\ tasks[t1].pc = "done" /\ tasks[t2].pc = "done"
          /\ NamesOf(t1) \cap NamesOf(t2) \cap DOMAIN mp # {}
    /\ calls \ DOMAIN mp # {}
    /\ ~mu.locked

\* C4: while main is past wg.Wait (createDepsToRemoveList and the Pruner)
\* the walk is over and every goroutine scanDir started has finished; the
\* WaitGroup counter is the number of started goroutines not yet finished.
C4_PrunerAfterAllTasks ==
    /\ wg = Cardinality({t \in DOMAIN tasks : tasks[t].pc # "done"})
    /\ PastBarrier => /\ walkStack = <<>>
                      /\ \A t \in DOMAIN tasks : tasks[t].pc = "done"

\* main is about to read the usage table and several goroutines ran.
C4_Witness ==
    /\ pc = "createDepsToRemoveList"
    /\ Cardinality(DOMAIN tasks) >= 2
    /\ calls # {}

\* C5: when package.json cannot be opened or is no valid JSON, the run
\* ends fatally before the scan: no goroutine is ever started, no
\* newPackage.json is created, nothing is renamed and the run does not
\* complete.
C5_ManifestFailureAborts ==
    ("readPackages: os.Open" \in failed \/ ~ParseJSON(manifest).ok) =>
        /\ DOMAIN tasks = {}
        /\ DiskUntouched
        /\ run # "complete"

\* C6: when a goroutine fails to open its file the run is over: the
\* removal set is never computed, the Pruner never starts and the manifest
\* files are untouched.
C6_OpenFailureAborts ==
    "readFileAndExtractPackages: os.Open" \in failed =>
        /\ run = "fatal"
        /\ ~PastBarrier
        /\ depsToRemove = {}
        /\ DiskUntouched

\* A goroutine failed to open its file while another was in the middle of
\* its scanning loop.
C6_Witness ==
    /\ "readFileAndExtractPackages: os.Open" \in failed
    /\ \E t \in DOMAIN tasks : tasks[t].pc \in {"scan", "locked", "unlock"}

\* C7: an I/O failure in a step of the Pruner ends the run at that step:
\* the run is over, fatally, in every state after the failure.
C7_PrunerFailureIsFatal ==
    failed \cap PrunerSteps # {} => run = "fatal"

\* C8: when the run has ended, either neither rename took effect
\* (package.json holds the manifest of the start, there is no backup) or
\* both did (oldpackage.json holds the manifest of the start and
\* package.json the repaired content).
C8_RenamesAreAtomic ==
    run # "running" =>
        \/ /\ disk["package.json"] = FileOf(manifest)
           /\ ~disk["oldpackage.json"].exists
        \/ /\ disk["oldpackage.json"] = FileOf(manifest)
           /\ disk["package.json"] = FileOf(Repaired)

\* The entries of a decoded manifest without the members named in deps of
\* dependencies and devDependencies.
WithoutDeps(flat, deps) ==
    {e \in flat : ~(/\ Len(e[1]) = 2
                    /\ e[1][1] \in {"dependencies", "devDependencies"}
                    /\ e[1][2] \in deps)}

\* C9: after a complete run without I/O failure on a valid manifest,
\* package.json is valid JSON and decodes to the manifest of the start
\* without the removal set's members of dependencies and devDependencies.
C9_RewrittenManifestIsThePrunedOne ==
    (run = "complete" /\ failed = {} /\ ParseJSON(manifest).ok) =>
        /\ ParseJSON(disk["package.json"].data).ok
        /\ ParseJSON(disk["package.json"].data).flat
              = WithoutDeps(ParseJSON(manifest).flat, depsToRemove)

\* C10: no goroutine is started for a file below a directory, at any
\* depth, whose name is in filesToExclude.
C10_NothingBelowExcludedDirs ==
    \A t \in DOMAIN tasks : \A i \in 1..(Len(t) - 1) : t[i] \notin filesToExclude

\* C11: after a complete run oldpackage.json holds the manifest of the
\* start, package.json the repaired, filtered content, and newPackage.json
\* is gone; nothing is in oldpackage.json before the repair is over, and
\* from the backup rename on oldpackage.json keeps the manifest of the
\* start, so newPackage.json is renamed onto package.json only with the
\* backup in place.
C11_BackupThenReplace ==
    /\ run = "complete" =>
          /\ disk["oldpackage.json"] = FileOf(manifest)
          /\ disk["package.json"] = FileOf(Repaired)
          /\ ~disk["newPackage.json"].exists
    /\ disk["oldpackage.json"].exists => pc \in {"rename new", "Program Complete"}
    /\ pc \in {"rename new", "Program Complete"} => disk["oldpackage.json"] = FileOf(manifest)

\* The same without the runs in which an I/O step failed.
C11_WithoutFailures == failed = {} => C11_BackupThenReplace

\* C12: createNewPackageJsonFile followed by removeTrailingCommas, run
\* without I/O failure on a valid manifest with an empty removal set,
\* leaves in newPackage.json the content of the manifest.
C12_PrunerIdempotent ==
    (/\ pc = "rename backup"
     /\ failed = {}
     /\ depsToRemove = {}
     /\ ParseJSON(manifest).ok) => disk["newPackage.json"] = FileOf(manifest)

\* The text of the key of a manifest member, as it stands on its line.
KeyText(d) == "\"" \o d \o "\":"

\* C13: after a complete run without I/O failure on a valid manifest, every
\* declared dependency outside the removal set still has its line in
\* package.json.
C13_KeptDependenciesKeepTheirLine ==
    (run = "complete" /\ failed = {} /\ ParseJSON(manifest).ok) =>
        \A d \in Declared \ depsToRemove :
            \E line \in {ScanLines(disk["package.json"].data)[i]
                         : i \in 1..Len(ScanLines(disk["package.json"].data))} :
                Contains(line, KeyText(d))

\* The fragments of a line after the first, split on require(", that do not
\* start with ".", each without a trailing "); suffix.
RequireCalls(line) ==
    Only({LET kept == SelectSeq(Tail(frags), LAMBDA v : ~HasPrefix(v, "."))
          IN  [i \in 1..Len(kept) |-> TrimSuffix(kept[i], "\");")]
          : frags \in {Split(line, "require(\"")}})

\* The calls of markModuleAsFound a file is to cause, line by line: those
\* of the require rule, then those of the import rule, which is applied to
\* every line, or, gated, to the lines that contain "import".
RECURSIVE ExpectedCalls(_, _)
ExpectedCalls(lines, gated) ==
    IF lines = <<>> THEN <<>>
    ELSE RequireCalls(Head(lines))
         \o (IF gated /\ ~Contains(Head(lines), "import") THEN <<>>
             ELSE handleImportCase(Head(lines)))
         \o Only({ExpectedCalls(rest, gated) : rest \in {Tail(lines)}})

\* C14, for every line: a goroutine that has finished its file has made
\* exactly one call of markModuleAsFound for every match of the import
\* pattern in every line, whether or not the line contains "import".
C14_ImportRuleOnEveryLine ==
    \A t \in DOMAIN tasks :
        tasks[t].pc = "done" => tasks[t].made = ExpectedCalls(tree[t].lines, FALSE)

\* C14, for the lines that contain "import": a goroutine that has finished its file has made exactly
\* one call of markModuleAsFound for every match of the import pattern in
\* every line that contains "import", and none for the import pattern on
\* the other lines.
C14_ImportRuleOnImportLines ==
    \A t \in DOMAIN tasks :
        tasks[t].pc = "done" => tasks[t].made = ExpectedCalls(tree[t].lines, TRUE)

\* A file of a re-export line and of a line with two import clauses has
\* been scanned: two calls, both for the second line.
C14_Witness ==
    \E t \in DOMAIN tasks :
        /\ tasks[t].pc = "done"
        /\ tree[t].lines = <<LineList[4], LineList[6]>>
        /\ tasks[t].made = <<"lodash", "bar">>

\* The calls of the require rule for the lines of a file.
RECURSIVE RequireCallsOfFile(_)
RequireCallsOfFile(lines) ==
    IF lines = <<>> THEN <<>>
    ELSE RequireCalls(Head(lines)) \o Only({RequireCallsOfFile(rest) : rest \in {Tail(lines)}})

\* C15: a goroutine that has finished a file on which the import rule does
\* not fire has made one call of markModuleAsFound for every fragment after
\* the first that does not start with ".", with the fragment minus a
\* trailing "); suffix, and no other call; after the file of the lines
\* import Foo from 'bar' and const x = require("./localfile"); the one call
\* is for bar, and the table differs from the one readPackages built in the
\* flag of bar only.
C15_RequireFragments ==
    \A t \in DOMAIN tasks :
        tasks[t].pc = "done" =>
            /\ (\A i \in 1..Len(tree[t].lines) : handleImportCase(tree[t].lines[i]) = <<>>)
                  => tasks[t].made = RequireCallsOfFile(tree[t].lines)
            /\ tree[t].lines = <<LineList[1], LineList[2]>>
                  => /\ tasks[t].made = <<"bar">>
                     /\ mp = [readPackagesTable(manifest) EXCEPT !["bar"] = TRUE]

\* The file of the scenario has been scanned, and so has one with a
\* package fragment and a local fragment on the same line.
C15_Witness ==
    \E t \in DOMAIN tasks :
        /\ tasks[t].pc = "done"
        /\ \/ tree[t].lines = <<LineList[1], LineList[2]>> /\ mp["bar"] /\ ~mp["lodash"]
           \/ tree[t].lines = <<LineList[2], LineList[3]>> /\ tasks[t].made = <<"lodash">>

\* C16: from the return of readPackages on the keys of the table are the
\* declared names, no step adds or deletes a key, no step takes a flag
\* from true to false, and the body of markModuleAsFound run with a name
\* that is not a key changes nothing in the table and does not end the
\* run.
C16_TableOnlyGainsMarks ==
    [][/\ pc' # "readPackages" => DOMAIN mp' = Declared
       /\ pc # "readPackages" =>
             /\ DOMAIN mp' = DOMAIN mp
             /\ \A k \in DOMAIN mp : mp[k] => mp'[k]
       /\ \A t \in DOMAIN tasks :
             (/\ tasks[t].pc = "locked"
              /\ tasks'[t].pc = "unlock"
              /\ Head(tasks[t].pending) \notin DOMAIN mp)
                => mp' = mp /\ run' = "running" /\ failed' = failed]_vars

\* A goroutine is back from markModuleAsFound with a name that is not a
\* key, and a flag that readPackages left false is true.
C16_Witness ==
    /\ \E t \in DOMAIN tasks :
          /\ tasks[t].pc \in {"scan", "done"}
          /\ \E i \in 1..Len(tasks[t].made) : tasks[t].made[i] \notin DOMAIN mp
    /\ \E k \in DOMAIN mp : mp[k] /\ k \notin ScriptNamed

\* The files scanDir is to start a goroutine for: the files that are not
\* in filesToExclude and not below a directory that is.
Eligible ==
    {p \in DOMAIN tree :
        /\ ~tree[p].isDir
        /\ \A i \in 1..Len(p) : JoinPath(SubSeq(p, 1, i)) \notin filesToExclude}

\* The goroutines that have run their deferred wg.Done().
Finished == {t \in DOMAIN tasks : tasks[t].pc = "done"}

\* C17: when filepath.Walk has returned, the files with a goroutine are
\* the eligible files, all of them, the ones in and below the later
\* siblings of an excluded file or directory included, and wg.Add(1) was
\* called once for each of them.
C17_OneTaskPerEligibleFile ==
    (pc \notin {"readPackages", "walk"}) =>
        /\ DOMAIN tasks = Eligible
        /\ wg + Cardinality(Finished) = Cardinality(Eligible)

\* The walk is over in a tree where the excluded directory node_modules
\* and the excluded file package.json come before the directory src: the
\* file in src has its goroutine, the one in node_modules has none.
C17_Witness ==
    /\ pc = "wg.Wait"
    /\ <<"src", "app.js">> \in DOMAIN tasks
    /\ <<"index.js">> \in DOMAIN tasks
    /\ <<"node_modules", "jest.js">> \in DOMAIN tree \ DOMAIN tasks
    /\ <<"package.json">> \in DOMAIN tree \ DOMAIN tasks

\* Goroutine t is in d.mu.Lock().
AtLock(t) ==
    /\ run = "running"
    /\ t \in DOMAIN tasks
    /\ tasks[t].pc = "scan"
    /\ tasks[t].pending # <<>>

\* Goroutine t is back from d.mu.Lock().
HasLock(t) == t \in DOMAIN tasks /\ tasks[t].pc = "locked"

\* C18: under fair scheduling every run ends; a run that ends complete has
\* been through wg.Wait with every goroutine past its wg.Done and through
\* the Pruner to the last statement of main; a goroutine in Lock gets the
\* lock unless the run ends, and main in wg.Wait gets out of it unless
\* the run ends.
C18_EveryRunEnds ==
    /\ <>(run # "running")
    /\ [](run = "complete" =>
            /\ pc = "Program Complete"
            /\ wg = 0
            /\ \A t \in DOMAIN tasks : tasks[t].pc = "done")
    /\ \A t \in TaskIds : AtLock(t) ~> (HasLock(t) \/ run # "running")
    /\ (run = "running" /\ pc = "wg.Wait") ~> (pc # "wg.Wait" \/ run # "running")

\* A run has ended complete after goroutines that had to take the lock,
\* and main was held at the barrier: every file has its goroutine done.
C18_Witness ==
    /\ run = "complete"
    /\ Cardinality(DOMAIN tasks) >= 2
    /\ Cardinality({t \in DOMAIN tasks : tasks[t].made # <<>>}) >= 2

\* The names goroutine t has called markModuleAsFound with.
Made(t) == {tasks[t].made[i] : i \in 1..Len(tasks[t].made)}

\* C19: past the barrier a flag is true exactly when a script command
\* contains the name or some goroutine called markModuleAsFound with it,
\* and the removal set, once computed, is the one value the manifest and
\* the files determine: the declared names that no script command contains
\* and no line of an eligible file yields, whatever the order in which the
\* goroutines ran.
C19_RemovalSetDetermined ==
    /\ PastBarrier =>
          \A k \in DOMAIN mp :
              mp[k] <=> (k \in ScriptNamed \/ \E t \in DOMAIN tasks : k \in Made(t))
    /\ ListComputed =>
          depsToRemove = {d \in Declared \ ScriptNamed : \A p \in Eligible : d \notin NamesOf(p)}

\* The removal set has been computed after two goroutines called
\* markModuleAsFound with the same name while a third called it with
\* another.
C19_Witness ==
    /\ ListComputed
    /\ \E k \in DOMAIN mp : \E t, u \in DOMAIN tasks : t # u /\ k \in Made(t) \cap Made(u)
    /\ \E k \in DOMAIN mp : \E t \in DOMAIN tasks :
          k \in Made(t) /\ \A u \in DOMAIN tasks \ {t} : k \notin Made(u)

=============================================================================
